---------------------------- MODULE Spec2Model ----------------------------
(***************************************************************************)
(* A model of the document-analysis service: the retrying analysis client  *)
(* (google_ai_service.analyze_document), the text-extraction fallback      *)
(* chain (textract_service.extract_text_from_upload), the content-based    *)
(* classifier (main.infer_document_type_from_content) and the handler of   *)
(* POST /analyze (main.analyze).                                           *)
(*                                                                         *)
(* A Python str is a sequence of tokens.  A token is one character ("{",   *)
(* "}", ",", "1", "x", " "), a JSON member abbreviated to one token (for   *)
(* instance "dt" for "document_type":"Invoice"), or a whole literal of the *)
(* source (for instance <<"Document">>).  A Python dict is a function      *)
(* whose domain is its set of keys.                                        *)
(***************************************************************************)
EXTENDS Integers, Sequences, FiniteSets, TLC

VARIABLES
    configured,     \* google_ai_service.model is not None
    pc,             \* analyze_document: "start", "loop", "done", "raised"
    attempt,        \* the loop variable of analyze_document
    calls,          \* number of model.generate_content calls made so far
    path,           \* which return statement produced the record
    last_response,  \* response.text of the attempt that returned (history)
    last_error,     \* str(e) of the attempt that returned (history)
    only_malformed, \* every attempt so far gave a non-empty response that
                    \* is not a JSON mapping (history)
    last_kind,      \* what the latest attempt produced: "none", "raise",
                    \* "empty", "invalid", "nonobject", "mapping" (history)
    result,         \* the dict returned by analyze_document
    earlier,        \* the last attempt and the record of an earlier call of
                    \* analyze_document, <<>> while there is none (history)
    aws_available,  \* textract_service.aws_available
    suffix,         \* Path(file_path).suffix of the upload
    epc,            \* extract_text_from_upload: "native", "ocr_fallback",
                    \* "ocr_final", "done", "raised"
    native,         \* what the native extractor did: "pending", "skipped",
                    \* "text", "raise"
    full_text,      \* the local full_text
    ocr_log,        \* the outcomes of the OCR backend calls made, in order
    ret,            \* the str returned by extract_text_from_upload
    hpc,            \* the /analyze handler: "idle" (no request), "start",
                    \* "extract", "analyze", "done"
    tmp_file,       \* the temporary file on disk: "none", "exists", "removed"
    tmp_path,       \* the local tmp_path is not None
    status,         \* HTTP status of the response, 0 while there is none
    reply,          \* the JSON body of a 200 response
    cls_text,       \* the argument of infer_document_type_from_content
    label           \* its return value, <<>> while it has not been called

avars == <<configured, pc, attempt, calls, path, last_response, last_error,
           only_malformed, last_kind, result, earlier>>

evars == <<aws_available, suffix, epc, native, full_text, ocr_log, ret>>

hvars == <<hpc, tmp_file, tmp_path, status, reply, cls_text, label>>

vars == <<avars, evars, hvars>>

----------------------------------------------------------------------------
(* Bounds of the model *)

\* longest run of JSON tokens in a generated response
MaxBody == 3

\* longest error text, in words
MaxErrLen == 2

\* length of the long prose padding, chosen next to the truncation limit
LongPad == 499

\* longest run of JSON tokens in front of the long prose
MaxLongBody == 2

\* longest text a native extractor or the OCR backend returns
MaxText == 2

----------------------------------------------------------------------------
(* Strings *)

Str(lit) == <<lit>>

Range(s) == {s[i] : i \in 1..Len(s)}

SeqsUpTo(S, n) == UNION {[1..k -> S] : k \in 0..n}

\* s[a:b] for 0 <= a, 0 <= b (Python slice, 0-based, end exclusive)
Slice(s, a, b) == SubSeq(s, a + 1, IF b > Len(s) THEN Len(s) ELSE b)

\* s.find(c): index of the first c, 0-based, or -1
Find(s, c) ==
    LET hits == {i \in 1..Len(s) : s[i] = c}
    IN  IF hits = {} THEN -1
        ELSE (CHOOSE i \in hits : \A j \in hits : i <= j) - 1

\* s.rfind(c): index of the last c, 0-based, or -1
RFind(s, c) ==
    LET hits == {i \in 1..Len(s) : s[i] = c}
    IN  IF hits = {} THEN -1
        ELSE (CHOOSE i \in hits : \A j \in hits : i >= j) - 1

RECURSIVE LStrip(_)
LStrip(s) == IF s # <<>> /\ Head(s) = " " THEN LStrip(Tail(s)) ELSE s

RECURSIVE RStrip(_)
RStrip(s) ==
    IF s # <<>> /\ s[Len(s)] = " " THEN RStrip(SubSeq(s, 1, Len(s) - 1)) ELSE s

\* s.strip()
Strip(s) == RStrip(LStrip(s))


----------------------------------------------------------------------------
(* Exceptions: the classes the handlers of the two services distinguish *)

\* the classes an exception of class c is an instance of
Bases(c) ==
    CASE c = "JSONDecodeError" -> {"JSONDecodeError", "ValueError", "Exception"}
      [] c = "ValueError" -> {"ValueError", "Exception"}
      [] c = "ResourceExhausted" -> {"ResourceExhausted", "Exception"}
      [] c = "ClientError" -> {"ClientError", "Exception"}
      [] OTHER -> {"Exception"}

\* `except handler` catches an exception of class c
Catches(handler, c) == handler \in Bases(c)

----------------------------------------------------------------------------
(* google_ai_service: constants and the records it builds *)

MAX_RETRIES == 3

SUMMARY_LIMIT == 500

\* the loop runs one iteration too many
RangeEnd_Mut == MAX_RETRIES + 2

\* range(1, MAX_RETRIES + 1): the end of the loop's range (exclusive)
RangeEnd == MAX_RETRIES + 1

\* the inner handler names the wrong class
InnerHandler_Mut == "KeyError"

\* except json.JSONDecodeError
InnerHandler == "JSONDecodeError"

\* the outer handler catches too narrow a class
OuterHandler_Mut == "ValueError"

\* except Exception
OuterHandler == "Exception"

EmptyDict == [k \in {} |-> k]

REQUIRED_KEYS == {"document_type", "summary", "key_information", "extracted_data"}

KeyInformation(detail) ==
    [important_details |-> <<Str(detail)>>,
     dates |-> <<>>,
     amounts |-> <<>>,
     names |-> <<>>,
     actions_required |-> <<>>]

\* the comparison is off by one
Summary_Mut(text) ==
    IF Len(text) >= SUMMARY_LIMIT
    THEN Slice(text, 0, SUMMARY_LIMIT) \o Str("...")
    ELSE text

\* text[:500] + "..." if len(text) > 500 else text
Summary(text) ==
    IF Len(text) > SUMMARY_LIMIT
    THEN Slice(text, 0, SUMMARY_LIMIT) \o Str("...")
    ELSE text

_create_structured_response_from_text(text) ==
    [language |-> Str("Unknown"),
     document_type |-> Str("Document"),
     summary |-> Summary(text),
     key_information |-> KeyInformation("Document processed with text analysis"),
     extracted_data |-> [raw_analysis |-> text],
     error |-> Str("JSON parsing failed, using text analysis")]

_get_fallback_response(error_message) ==
    [language |-> Str("Unknown"),
     document_type |-> Str("Document"),
     summary |-> Str("Document analysis completed with limited information due to API errors."),
     key_information |-> KeyInformation("Document processed with limited analysis"),
     extracted_data |-> EmptyDict,
     error |-> error_message]

\* if k not in d: d[k] = v
SetDefault(d, k, v) ==
    IF k \in DOMAIN d THEN d
    ELSE [x \in DOMAIN d \cup {k} |-> IF x = k THEN v ELSE d[x]]

\* the default for summary is forgotten
EnsureRequiredFields_Mut(d) ==
    SetDefault(
      SetDefault(
        SetDefault(d, "document_type", Str("Document")),
        "key_information", EmptyDict),
      "extracted_data", EmptyDict)

\* the four `if ... not in result` statements of analyze_document
EnsureRequiredFields(d) ==
    SetDefault(
      SetDefault(
        SetDefault(
          SetDefault(d, "document_type", Str("Document")),
          "summary", Str("Document analyzed successfully")),
        "key_information", EmptyDict),
      "extracted_data", EmptyDict)

----------------------------------------------------------------------------
(* json.loads on the token grammar:                                        *)
(*   value  ::= "1" | object                                               *)
(*   object ::= "{" "}" | "{" member ("," member)* "}"                      *)

\* Python None (JSON null): a one-token value that no str of the model equals
None == <<"None">>

MemberTokens == {"dt", "su", "ki", "ed", "er", "la"}

\* the member that gives document_type the value null
NullTokens == {"dn"}

\* members that give document_type one of the generic labels; they occur
\* only in the responses of the /analyze requests
TypeTokens == {"dd", "dg", "du"}

MemberKey(m) ==
    CASE m = "dt" -> "document_type"
      [] m = "dn" -> "document_type"
      [] m \in TypeTokens -> "document_type"
      [] m = "su" -> "summary"
      [] m = "ki" -> "key_information"
      [] m = "ed" -> "extracted_data"
      [] m = "er" -> "error"
      [] m = "la" -> "language"

MemberValue(m) ==
    CASE m = "dt" -> Str("Invoice")
      [] m = "dn" -> None
      [] m = "dd" -> Str("Document")
      [] m = "dg" -> Str("GeneralDocument")
      [] m = "du" -> Str("Unknown")
      [] m = "su" -> Str("Invoice due March 1")
      [] m = "ki" -> [dates |-> <<Str("March 1")>>]
      [] m = "ed" -> [total |-> Str("500")]
      [] m = "er" -> Str("model reported an error")
      [] m = "la" -> Str("English")

IsObjectText(s) ==
    /\ Len(s) >= 2
    /\ s[1] = "{"
    /\ s[Len(s)] = "}"
    /\ LET inner == SubSeq(s, 2, Len(s) - 1)
       IN  \/ inner = <<>>
           \/ /\ Len(inner) % 2 = 1
              /\ \A i \in 1..Len(inner) :
                    IF i % 2 = 1
                    THEN inner[i] \in MemberTokens \cup NullTokens \cup TypeTokens
                    ELSE inner[i] = ","

\* the dict of an object text; a repeated key keeps its last value
ObjectOf(s) ==
    LET members == {i \in 2..(Len(s) - 1) :
                       s[i] \in MemberTokens \cup NullTokens \cup TypeTokens}
        lastOf(k) == CHOOSE i \in members :
                        /\ MemberKey(s[i]) = k
                        /\ \A j \in members : MemberKey(s[j]) = k => j <= i
    IN  [k \in {MemberKey(s[i]) : i \in members} |-> MemberValue(s[lastOf(k)])]

\* json.loads(s): ok = FALSE stands for raising json.JSONDecodeError
JsonLoads(s) ==
    IF s = <<"1">> THEN [ok |-> TRUE, isdict |-> FALSE, value |-> EmptyDict]
    ELSE IF IsObjectText(s) THEN [ok |-> TRUE, isdict |-> TRUE, value |-> ObjectOf(s)]
    ELSE [ok |-> FALSE, isdict |-> FALSE, value |-> EmptyDict]

\* the whole response is parsed, the embedded object is not looked for
JsonContent_Mut(content) == content

\* lines 50-57: the text handed to json.loads
JsonContent(content) ==
    LET start_idx == Find(content, "{")
        end_idx == RFind(content, "}") + 1
    IN  IF start_idx # -1 /\ end_idx # 0
        THEN Slice(content, start_idx, end_idx)
        ELSE content

----------------------------------------------------------------------------
(* The remote generation capability: what one call can produce *)

BodyTokens == {"{", "}", ",", "1"} \cup MemberTokens

Bodies == SeqsUpTo(BodyTokens, MaxBody)

ShortPads == {<<>>, <<" ">>, <<"x">>}

LongProse == [i \in 1..LongPad |-> "x"]

\* objects whose document_type is null, alone and next to another member
NullResponses ==
    {<<"{", "dn", "}">>, <<"{", "dn", ",", "su", "}">>, <<"{", "dt", ",", "dn", "}">>}

\* response.text: a run of JSON tokens inside short extraneous text, or
\* followed by long prose, or an object with a null
Responses ==
    {pre \o b \o post : pre \in ShortPads, b \in Bodies, post \in ShortPads}
      \cup {b \o LongProse : b \in SeqsUpTo(BodyTokens, MaxLongBody)}
      \cup NullResponses

ErrWords == {"429", "Quota", "quota", "timeout"}

ErrTexts == SeqsUpTo(ErrWords, MaxErrLen)

RemoteExceptions == {"Exception", "ValueError", "ResourceExhausted", "JSONDecodeError"}

\* str.lower() on one word
LowerWord(w) == IF w = "Quota" THEN "quota" ELSE w

Lower(s) == [i \in 1..Len(s) |-> LowerWord(s[i])]

\* the text is not lower-cased before "quota" is looked for
IsRateLimit_Mut(msg) == "429" \in Range(msg) \/ "quota" \in Range(msg)

\* "429" in str(e) or "quota" in str(e).lower()
IsRateLimit(msg) == "429" \in Range(msg) \/ "quota" \in Range(Lower(msg))

RateLimitMessage ==
    Str("Rate limit exceeded. Please try again later or upgrade your Google AI plan.")

ExhaustedMessage(msg) ==
    <<"Analysis completed with limited information after ", ToString(MAX_RETRIES),
      " retries: ">> \o msg

----------------------------------------------------------------------------
(* analyze_document *)

\* the analysis client before a call
AnalyzeIdle(c) ==
    /\ configured = c
    /\ pc = "start"
    /\ attempt = 0
    /\ calls = 0
    /\ path = "none"
    /\ last_response = <<>>
    /\ last_error = <<>>
    /\ only_malformed = TRUE
    /\ last_kind = "none"
    /\ result = EmptyDict
    /\ earlier = <<>>

\* the extraction coordinator before a call
ExtractIdle(a, sfx) ==
    /\ aws_available = a
    /\ suffix = sfx
    /\ epc = "native"
    /\ native = "pending"
    /\ full_text = <<>>
    /\ ocr_log = <<>>
    /\ ret = <<>>

\* no request is being handled and the classifier has not been called
HandlerIdle ==
    /\ hpc = "idle"
    /\ tmp_file = "none"
    /\ tmp_path = FALSE
    /\ status = 0
    /\ reply = EmptyDict
    /\ cls_text = <<>>
    /\ label = <<>>

AnalyzeInit ==
    /\ HandlerIdle
    /\ ExtractIdle(FALSE, ".txt")
    /\ \E c \in BOOLEAN : AnalyzeIdle(c)

\* a return statement: the record, and the response or error it came from
Return(p, record, response, error) ==
    /\ pc' = "done"
    /\ path' = p
    /\ result' = record
    /\ last_response' = response
    /\ last_error' = error
    /\ UNCHANGED <<configured, earlier, attempt, evars, hvars>>

\* the fallback after the loop reports the parse failures of the earlier
\* attempts
EndIteration_Mut(response) ==
    IF attempt + 1 < RangeEnd
    THEN /\ attempt' = attempt + 1
         /\ UNCHANGED <<configured, earlier, pc, path, last_response, last_error,
                        result, evars, hvars>>
    ELSE Return("fallback",
                _get_fallback_response(
                    IF only_malformed
                    THEN Str("JSON parsing failed, using text analysis")
                    ELSE Str("Analysis completed with fallback method")),
                response, <<>>)

\* the iteration ends without a return: the next iteration, or the
\* statements after the loop (lines 97-99)
EndIteration(response) ==
    IF attempt + 1 < RangeEnd
    THEN /\ attempt' = attempt + 1
         /\ UNCHANGED <<configured, earlier, pc, path, last_response, last_error,
                        result, evars, hvars>>
    ELSE Return("fallback",
                _get_fallback_response(Str("Analysis completed with fallback method")),
                response, <<>>)

\* an exception of class c leaves the function
Propagate(c) ==
    /\ pc' = "raised"
    /\ last_error' = Str(c)
    /\ UNCHANGED <<configured, earlier, attempt, path, last_response, result,
                   evars, hvars>>

\* lines 84-95: an exception of class c with text msg reaches the outer handler
OuterExcept(c, msg) ==
    IF ~Catches(OuterHandler, c) THEN Propagate(c)
    ELSE IF IsRateLimit(msg) /\ attempt = MAX_RETRIES
    THEN Return("fallback", _get_fallback_response(RateLimitMessage), <<>>, msg)
    ELSE IF attempt = MAX_RETRIES
    THEN Return("fallback", _get_fallback_response(ExhaustedMessage(msg)), <<>>, msg)
    ELSE EndIteration(<<>>)

\* lines 76-80: json.loads raised json.JSONDecodeError on content
InnerExcept(content, response) ==
    IF ~Catches(InnerHandler, "JSONDecodeError")
    THEN OuterExcept("JSONDecodeError", Str("Expecting value"))
    ELSE IF attempt = MAX_RETRIES
    THEN Return("text_reconstruction",
                _create_structured_response_from_text(content), response, <<>>)
    ELSE EndIteration(response)

\* the configuration check is missing
Start_Mut ==
    /\ pc = "start"
    /\ pc' = "loop"
    /\ attempt' = 1
    /\ UNCHANGED <<configured, earlier, calls, path, last_response, last_error,
                   only_malformed, last_kind, result, evars, hvars>>

\* lines 29-31 and the entry into the loop
Start ==
    /\ pc = "start"
    /\ IF ~configured
       THEN /\ Return("fallback",
                      _get_fallback_response(Str("Google AI not configured")),
                      <<>>, <<>>)
            /\ UNCHANGED <<calls, only_malformed, last_kind>>
       ELSE /\ pc' = "loop"
            /\ attempt' = 1
            /\ UNCHANGED <<configured, earlier, calls, path, last_response, last_error,
                           only_malformed, last_kind, result, evars, hvars>>

\* one iteration: model.generate_content (or response.text) raises an
\* exception whose text is one of errors
AttemptRaisesOf(errors) ==
    /\ pc = "loop"
    /\ calls' = calls + 1
    /\ only_malformed' = FALSE
    /\ last_kind' = "raise"
    /\ \E c \in RemoteExceptions, msg \in errors : OuterExcept(c, msg)

AttemptRaises == AttemptRaisesOf(ErrTexts)

\* an empty response gives up at once instead of retrying
AttemptEmpty_Mut ==
    /\ pc = "loop"
    /\ calls' = calls + 1
    /\ only_malformed' = FALSE
    /\ last_kind' = "empty"
    /\ Return("fallback",
              _get_fallback_response(Str("Analysis completed with fallback method")),
              <<>>, <<>>)

\* one iteration: response.text is empty
AttemptEmpty ==
    /\ pc = "loop"
    /\ calls' = calls + 1
    /\ only_malformed' = FALSE
    /\ last_kind' = "empty"
    /\ EndIteration(<<>>)

\* one iteration: response.text is a non-empty text t of responses
AttemptTextOf(responses) ==
    /\ pc = "loop"
    /\ calls' = calls + 1
    /\ \E t \in responses \ {<<>>} :
         LET content == Strip(t)
             parsed == JsonLoads(JsonContent(content))
         IN  /\ only_malformed' = (only_malformed /\ ~(parsed.ok /\ parsed.isdict))
             /\ last_kind' = (IF ~parsed.ok THEN "invalid"
                              ELSE IF parsed.isdict THEN "mapping" ELSE "nonobject")
             /\ IF ~parsed.ok THEN InnerExcept(content, t)
                ELSE IF parsed.isdict
                THEN Return("normalize", EnsureRequiredFields(parsed.value), t, <<>>)
                ELSE EndIteration(t)

AttemptText == AttemptTextOf(Responses)

AnalyzeNext == Start \/ AttemptRaises \/ AttemptEmpty \/ AttemptText

AnalyzeSpec == AnalyzeInit /\ [][AnalyzeNext]_vars

----------------------------------------------------------------------------
(* textract_service.extract_text_from_upload *)

TextChars == {" ", "a"}

Texts == SeqsUpTo(TextChars, MaxText)

Suffixes == {".pdf", ".PDF", ".docx", ".csv", ".xlsx", ".txt", ".TXT",
             ".png", ".jpg", ".jpeg"}

\* str.lower() on a suffix
LowerSuffix(sfx) ==
    CASE sfx = ".PDF" -> ".pdf"
      [] sfx = ".TXT" -> ".txt"
      [] OTHER -> sfx

\* ext = Path(file_path).suffix.lower()
ext == LowerSuffix(suffix)

\* lines 87-94: the native extractor chosen for an extension
NativeExtractor(e) ==
    CASE e = ".pdf" -> "_extract_pdf_sync"
      [] e = ".docx" -> "_extract_docx_sync"
      [] e \in {".csv", ".xlsx"} -> "_extract_table_sync"
      [] e = ".txt" -> "_extract_txt_sync"
      [] OTHER -> "none"

NativeExceptions == {"Exception", "ValueError"}

OcrExceptions == {"ClientError", "Exception"}

\* line 109: except Exception
ExtractHandler == "Exception"

\* the generic handler of the fallback is missing
FallbackHandlers_Mut == {"ClientError"}

\* lines 118 and 121: except ClientError, except Exception
FallbackHandlers == {"ClientError", "Exception"}

\* line 97: if full_text and full_text.strip()
HasText(t) == t # <<>> /\ Strip(t) # <<>>

\* the text is returned untrimmed
NativeResult_Mut(t) == t

\* line 99: return full_text.strip()
NativeResult(t) == Strip(t)

\* line 68: _textract_sync refuses to call the backend
TextractUnavailable == ~aws_available

ExtractReturn(t) ==
    /\ epc' = "done"
    /\ ret' = t
    /\ UNCHANGED <<aws_available, suffix, avars, hvars>>

ExtractPropagate ==
    /\ epc' = "raised"
    /\ UNCHANGED <<aws_available, suffix, ret, avars, hvars>>

\* the except branch gives up without the OCR fallback
ExceptBranch_Mut(c) ==
    IF ~Catches(ExtractHandler, c) THEN ExtractPropagate
    ELSE ExtractReturn(<<>>)

\* lines 109-117: an exception of class c raised inside the try block
ExceptBranch(c) ==
    IF ~Catches(ExtractHandler, c) THEN ExtractPropagate
    ELSE IF aws_available
    THEN /\ epc' = "ocr_final"
         /\ UNCHANGED <<aws_available, suffix, ret, avars, hvars>>
    ELSE ExtractReturn(<<>>)

\* lines 118-123: an exception of class c raised by the call of line 114
FallbackExcept(c) ==
    IF \E h \in FallbackHandlers : Catches(h, c)
    THEN ExtractReturn(<<>>)
    ELSE ExtractPropagate

\* lines 87-107: the native step returns a text t of texts (no extractor:
\* full_text stays "")
NativeReturnsOf(texts) ==
    /\ epc = "native"
    /\ \E t \in (IF NativeExtractor(ext) = "none" THEN {<<>>} ELSE texts) :
         /\ native' = (IF NativeExtractor(ext) = "none" THEN "skipped" ELSE "text")
         /\ full_text' = t
         /\ UNCHANGED ocr_log
         /\ IF HasText(t) THEN ExtractReturn(NativeResult(t))
            ELSE IF aws_available
            THEN /\ epc' = "ocr_fallback"
                 /\ UNCHANGED <<aws_available, suffix, ret, avars, hvars>>
            ELSE ExtractReturn(<<>>)

NativeReturns == NativeReturnsOf(Texts)

\* lines 87-94 raise: the native extractor fails
NativeRaises ==
    /\ epc = "native"
    /\ NativeExtractor(ext) # "none"
    /\ native' = "raise"
    /\ UNCHANGED <<full_text, ocr_log>>
    /\ \E c \in NativeExceptions : ExceptBranch(c)

\* line 104: the OCR call of the try block, the backend returning a text of
\* texts or raising
OcrFallbackCallOf(texts) ==
    /\ epc = "ocr_fallback"
    /\ UNCHANGED <<native, full_text>>
    /\ IF TextractUnavailable
       THEN /\ UNCHANGED ocr_log
            /\ ExceptBranch("Exception")
       ELSE \/ \E t \in texts :
                 /\ ocr_log' = Append(ocr_log, [kind |-> "text", text |-> t])
                 /\ ExtractReturn(t)
            \/ \E c \in OcrExceptions :
                 /\ ocr_log' = Append(ocr_log, [kind |-> "raise", text |-> <<>>])
                 /\ ExceptBranch(c)

OcrFallbackCall == OcrFallbackCallOf(Texts)

\* line 114: the OCR call of the except branch
OcrFinalCallOf(texts) ==
    /\ epc = "ocr_final"
    /\ UNCHANGED <<native, full_text>>
    /\ IF TextractUnavailable
       THEN /\ UNCHANGED ocr_log
            /\ FallbackExcept("Exception")
       ELSE \/ \E t \in texts :
                 /\ ocr_log' = Append(ocr_log, [kind |-> "text", text |-> t])
                 /\ ExtractReturn(t)
            \/ \E c \in OcrExceptions :
                 /\ ocr_log' = Append(ocr_log, [kind |-> "raise", text |-> <<>>])
                 /\ FallbackExcept(c)

OcrFinalCall == OcrFinalCallOf(Texts)

ExtractInit ==
    /\ HandlerIdle
    /\ AnalyzeIdle(TRUE)
    /\ \E a \in BOOLEAN, sfx \in Suffixes : ExtractIdle(a, sfx)

ExtractNext == NativeReturns \/ NativeRaises \/ OcrFallbackCall \/ OcrFinalCall

ExtractSpec == ExtractInit /\ [][ExtractNext]_vars

----------------------------------------------------------------------------
(* main.infer_document_type_from_content.  The texts of this part are    *)
(* sequences of single characters.                                        *)

UpperCase == <<"A", "B", "C", "D", "E", "F", "G", "H", "I", "J", "K", "L", "M",
               "N", "O", "P", "Q", "R", "S", "T", "U", "V", "W", "X", "Y", "Z">>

LowerCase == <<"a", "b", "c", "d", "e", "f", "g", "h", "i", "j", "k", "l", "m",
               "n", "o", "p", "q", "r", "s", "t", "u", "v", "w", "x", "y", "z">>

\* str.lower() on one character
LowerChar(c) ==
    IF \E i \in 1..Len(UpperCase) : UpperCase[i] = c
    THEN LowerCase[CHOOSE i \in 1..Len(UpperCase) : UpperCase[i] = c]
    ELSE c

\* line 45: text.lower()
LowerText(t) == [i \in 1..Len(t) |-> LowerChar(t[i])]

\* the word is found only at the start of the text
Contains_Mut(s, word) == Len(word) <= Len(s) /\ SubSeq(s, 1, Len(word)) = word

\* word in text_lower: the word occurs somewhere in the text
Contains(s, word) ==
    \E i \in 1..(Len(s) - Len(word) + 1) : SubSeq(s, i, i + Len(word) - 1) = word

\* line 48: 'invoice', 'bill', 'payment', 'amount due', 'total'
InvoiceWords ==
    {<<"i", "n", "v", "o", "i", "c", "e">>,
     <<"b", "i", "l", "l">>,
     <<"p", "a", "y", "m", "e", "n", "t">>,
     <<"a", "m", "o", "u", "n", "t", " ", "d", "u", "e">>,
     <<"t", "o", "t", "a", "l">>}

\* line 50: 'balance sheet', 'assets', 'liabilities', 'equity'
BalanceSheetWords ==
    {<<"b", "a", "l", "a", "n", "c", "e", " ", "s", "h", "e", "e", "t">>,
     <<"a", "s", "s", "e", "t", "s">>,
     <<"l", "i", "a", "b", "i", "l", "i", "t", "i", "e", "s">>,
     <<"e", "q", "u", "i", "t", "y">>}

\* line 52: 'profit', 'loss', 'revenue', 'income statement'
ProfitLossWords ==
    {<<"p", "r", "o", "f", "i", "t">>,
     <<"l", "o", "s", "s">>,
     <<"r", "e", "v", "e", "n", "u", "e">>,
     <<"i", "n", "c", "o", "m", "e", " ", "s", "t", "a", "t", "e", "m", "e", "n", "t">>}

\* line 54: 'receipt', 'purchase', 'transaction'
ReceiptWords ==
    {<<"r", "e", "c", "e", "i", "p", "t">>,
     <<"p", "u", "r", "c", "h", "a", "s", "e">>,
     <<"t", "r", "a", "n", "s", "a", "c", "t", "i", "o", "n">>}

\* line 58: 'contract', 'agreement', 'terms', 'clause', 'party'
ContractWords ==
    {<<"c", "o", "n", "t", "r", "a", "c", "t">>,
     <<"a", "g", "r", "e", "e", "m", "e", "n", "t">>,
     <<"t", "e", "r", "m", "s">>,
     <<"c", "l", "a", "u", "s", "e">>,
     <<"p", "a", "r", "t", "y">>}

\* line 60: 'legal', 'attorney', 'lawyer', 'court'
LegalWords ==
    {<<"l", "e", "g", "a", "l">>,
     <<"a", "t", "t", "o", "r", "n", "e", "y">>,
     <<"l", "a", "w", "y", "e", "r">>,
     <<"c", "o", "u", "r", "t">>}

\* line 64: 'report', 'analysis', 'findings', 'conclusion'
ReportWords ==
    {<<"r", "e", "p", "o", "r", "t">>,
     <<"a", "n", "a", "l", "y", "s", "i", "s">>,
     <<"f", "i", "n", "d", "i", "n", "g", "s">>,
     <<"c", "o", "n", "c", "l", "u", "s", "i", "o", "n">>}

\* line 66: 'proposal', 'offer', 'quote', 'estimate'
ProposalWords ==
    {<<"p", "r", "o", "p", "o", "s", "a", "l">>,
     <<"o", "f", "f", "e", "r">>,
     <<"q", "u", "o", "t", "e">>,
     <<"e", "s", "t", "i", "m", "a", "t", "e">>}

\* line 68: 'memo', 'memorandum', 'internal'
MemoWords ==
    {<<"m", "e", "m", "o">>,
     <<"m", "e", "m", "o", "r", "a", "n", "d", "u", "m">>,
     <<"i", "n", "t", "e", "r", "n", "a", "l">>}

\* line 70: 'policy', 'procedure', 'guideline'
PolicyWords ==
    {<<"p", "o", "l", "i", "c", "y">>,
     <<"p", "r", "o", "c", "e", "d", "u", "r", "e">>,
     <<"g", "u", "i", "d", "e", "l", "i", "n", "e">>}

\* line 74: 'resume', 'cv', 'curriculum vitae', 'experience', 'skills'
ResumeWords ==
    {<<"r", "e", "s", "u", "m", "e">>,
     <<"c", "v">>,
     <<"c", "u", "r", "r", "i", "c", "u", "l", "u", "m", " ", "v", "i", "t", "a", "e">>,
     <<"e", "x", "p", "e", "r", "i", "e", "n", "c", "e">>,
     <<"s", "k", "i", "l", "l", "s">>}

\* line 76: 'letter', 'dear', 'sincerely', 'yours truly'
LetterWords ==
    {<<"l", "e", "t", "t", "e", "r">>,
     <<"d", "e", "a", "r">>,
     <<"s", "i", "n", "c", "e", "r", "e", "l", "y">>,
     <<"y", "o", "u", "r", "s", " ", "t", "r", "u", "l", "y">>}

\* line 78: 'certificate', 'certification', 'award'
CertificateWords ==
    {<<"c", "e", "r", "t", "i", "f", "i", "c", "a", "t", "e">>,
     <<"c", "e", "r", "t", "i", "f", "i", "c", "a", "t", "i", "o", "n">>,
     <<"a", "w", "a", "r", "d">>}

\* line 82: 'manual', 'guide', 'instruction', 'how to'
ManualWords ==
    {<<"m", "a", "n", "u", "a", "l">>,
     <<"g", "u", "i", "d", "e">>,
     <<"i", "n", "s", "t", "r", "u", "c", "t", "i", "o", "n">>,
     <<"h", "o", "w", " ", "t", "o">>}

\* line 84: 'specification', 'technical', 'specs'
TechnicalWords ==
    {<<"s", "p", "e", "c", "i", "f", "i", "c", "a", "t", "i", "o", "n">>,
     <<"t", "e", "c", "h", "n", "i", "c", "a", "l">>,
     <<"s", "p", "e", "c", "s">>}

\* line 88: 'research', 'study', 'academic', 'university'
AcademicWords ==
    {<<"r", "e", "s", "e", "a", "r", "c", "h">>,
     <<"s", "t", "u", "d", "y">>,
     <<"a", "c", "a", "d", "e", "m", "i", "c">>,
     <<"u", "n", "i", "v", "e", "r", "s", "i", "t", "y">>}

\* line 92: 'government', 'official', 'department', 'ministry'
GovernmentWords ==
    {<<"g", "o", "v", "e", "r", "n", "m", "e", "n", "t">>,
     <<"o", "f", "f", "i", "c", "i", "a", "l">>,
     <<"d", "e", "p", "a", "r", "t", "m", "e", "n", "t">>,
     <<"m", "i", "n", "i", "s", "t", "r", "y">>}

\* line 96: 'medical', 'health', 'patient', 'diagnosis', 'treatment'
MedicalWords ==
    {<<"m", "e", "d", "i", "c", "a", "l">>,
     <<"h", "e", "a", "l", "t", "h">>,
     <<"p", "a", "t", "i", "e", "n", "t">>,
     <<"d", "i", "a", "g", "n", "o", "s", "i", "s">>,
     <<"t", "r", "e", "a", "t", "m", "e", "n", "t">>}

\* line 100: len(text) < 100
SHORT_LIMIT == 100

\* line 102: len(text) < 1000
MEDIUM_LIMIT == 1000

\* lines 41-105: the if/elif chain over the keyword lists, then the length
infer_document_type_from_content(t) ==
    LET text_lower == LowerText(t)
        any(words) == \E word \in words : Contains(text_lower, word)
    IN  IF any(InvoiceWords) THEN Str("Invoice")
        ELSE IF any(BalanceSheetWords) THEN Str("Balance Sheet")
        ELSE IF any(ProfitLossWords) THEN Str("Profit & Loss Statement")
        ELSE IF any(ReceiptWords) THEN Str("Receipt")
        ELSE IF any(ContractWords) THEN Str("Contract")
        ELSE IF any(LegalWords) THEN Str("Legal Document")
        ELSE IF any(ReportWords) THEN Str("Report")
        ELSE IF any(ProposalWords) THEN Str("Proposal")
        ELSE IF any(MemoWords) THEN Str("Memo")
        ELSE IF any(PolicyWords) THEN Str("Policy Document")
        ELSE IF any(ResumeWords) THEN Str("Resume")
        ELSE IF any(LetterWords) THEN Str("Letter")
        ELSE IF any(CertificateWords) THEN Str("Certificate")
        ELSE IF any(ManualWords) THEN Str("Manual")
        ELSE IF any(TechnicalWords) THEN Str("Technical Document")
        ELSE IF any(AcademicWords) THEN Str("Academic Document")
        ELSE IF any(GovernmentWords) THEN Str("Government Document")
        ELSE IF any(MedicalWords) THEN Str("Medical Document")
        ELSE IF Len(t) < SHORT_LIMIT THEN Str("Short Document")
        ELSE IF Len(t) < MEDIUM_LIMIT THEN Str("Medium Document")
        ELSE Str("Long Document")

\* most pieces of text a classified document is made of
MaxPieces == 2

\* pieces of text: keywords of every rule, in lower and upper case, whole
\* and split in two, and characters that belong to no keyword
Pieces ==
    {<<"i", "n">>,
     <<"v", "o", "i", "c", "e">>,
     <<"I", "n", "v", "o", "i", "c", "e">>,
     <<"T", "O", "T", "A", "L">>,
     <<"a", "s", "s", "e", "t", "s">>,
     <<"p", "r", "o", "f", "i", "t">>,
     <<"r", "e", "c", "e", "i", "p", "t">>,
     <<"c", "o", "n", "t", "r", "a", "c", "t">>,
     <<"p", "a", "r", "t", "y">>,
     <<"c", "o", "u", "r", "t">>,
     <<"r", "e", "p", "o", "r", "t">>,
     <<"q", "u", "o", "t", "e">>,
     <<"m", "e", "m", "o">>,
     <<"p", "o", "l", "i", "c", "y">>,
     <<"c", "v">>,
     <<"D", "e", "a", "r">>,
     <<"a", "w", "a", "r", "d">>,
     <<"g", "u", "i", "d", "e">>,
     <<"s", "p", "e", "c", "s">>,
     <<"s", "t", "u", "d", "y">>,
     <<"m", "i", "n", "i", "s", "t", "r", "y">>,
     <<"h", "e", "a", "l", "t", "h">>,
     <<" ">>,
     <<"z">>}

RECURSIVE Flatten(_)
Flatten(ps) == IF ps = <<>> THEN <<>> ELSE Head(ps) \o Flatten(Tail(ps))

\* n characters outside every keyword
Pad(n) == [i \in 1..n |-> "z"]

\* lengths on both sides of the two limits
PadLens == {SHORT_LIMIT - 1, SHORT_LIMIT, MEDIUM_LIMIT - 1, MEDIUM_LIMIT}

\* the documents classified: short texts made of pieces, and long texts
\* without and with a keyword
ClassifyTexts ==
    {Flatten(ps) : ps \in SeqsUpTo(Pieces, MaxPieces)}
        \cup {Pad(n) \o p : n \in PadLens, p \in {<<>>, <<"C", "o", "u", "r", "t">>}}

\* one call of the classifier on the text cls_text
Classify ==
    /\ hpc = "idle"
    /\ label = <<>>
    /\ label' = infer_document_type_from_content(cls_text)
    /\ UNCHANGED <<avars, evars, hpc, tmp_file, tmp_path, status, reply, cls_text>>

ClassifyInit ==
    /\ AnalyzeIdle(TRUE)
    /\ ExtractIdle(FALSE, ".txt")
    /\ hpc = "idle"
    /\ tmp_file = "none"
    /\ tmp_path = FALSE
    /\ status = 0
    /\ reply = EmptyDict
    /\ cls_text \in ClassifyTexts
    /\ label = <<>>

ClassifyNext == Classify

ClassifySpec == ClassifyInit /\ [][ClassifyNext]_vars

----------------------------------------------------------------------------
(* main.analyze, the handler of POST /analyze *)

\* line 30
ALLOWED_EXTENSIONS == {".pdf", ".docx", ".csv", ".xlsx", ".png", ".jpg", ".jpeg", ".txt"}

\* suffixes of the uploaded file's name, one of them not allowed
HandlerSuffixes == {".pdf", ".TXT", ".png", ".exe"}

\* what the extractors and the OCR backend return for the upload
HandlerTexts ==
    {<<>>, <<" ">>, <<"z">>, <<"I", "n", "v", "o", "i", "c", "e">>,
     <<" ", "c", "o", "u", "r", "t", " ">>}

\* what the generation backend answers: objects without document_type,
\* with a specific one, with null, with each generic label, and texts that
\* are no JSON object
HandlerResponses ==
    {<<"{", "}">>, <<"{", "dt", "}">>, <<"{", "dn", "}">>, <<"{", "dd", "}">>,
     <<"{", "dg", "}">>, <<"{", "du", "}">>, <<"x">>, <<"1">>}

\* the error texts of the generation backend
HandlerErrors == {<<"429">>, <<"timeout">>}

\* the document type is compared without "Document"
GENERIC_TYPES_Mut == {Str("GeneralDocument"), Str("Unknown")}

\* line 144: ["GeneralDocument", "Document", "Unknown"]
GENERIC_TYPES == {Str("GeneralDocument"), Str("Document"), Str("Unknown")}

\* only the empty text counts as no text
NoText_Mut(t) == t = <<>>

\* line 125: not extracted_text or not extracted_text.strip()
NoText(t) == t = <<>> \/ Strip(t) = <<>>

\* d[k] = v on a dict
SetItem(d, k, v) == [x \in DOMAIN d \cup {k} |-> IF x = k THEN v ELSE d[x]]

\* file.filename
Filename == <<"upload", suffix>>

\* the request ends with status st and body; lines 161-163 run with the
\* local tmp_path set or not and the temporary file in the state file
Respond(st, body, path_set, file) ==
    /\ hpc' = "done"
    /\ status' = st
    /\ reply' = body
    /\ tmp_path' = path_set
    /\ tmp_file' = (IF path_set /\ file = "exists" THEN "removed" ELSE file)

\* lines 115-124: validation, the temporary file, the call of the extraction.
\* NamedTemporaryFile creates the file; file.read() or tmp.write() may raise
\* before tmp_path is assigned.
HandlerBegin ==
    /\ hpc = "start"
    /\ UNCHANGED <<avars, aws_available, suffix, native, full_text, ocr_log, ret,
                   cls_text, label>>
    /\ IF LowerSuffix(suffix) \notin ALLOWED_EXTENSIONS
       THEN /\ Respond(400, EmptyDict, FALSE, "none")
            /\ UNCHANGED epc
       ELSE \E outcome \in {"ok", "create_raises", "read_raises", "write_raises"} :
              IF outcome = "create_raises"
              THEN /\ Respond(500, EmptyDict, FALSE, "none")
                   /\ UNCHANGED epc
              ELSE IF outcome \in {"read_raises", "write_raises"}
              THEN /\ Respond(500, EmptyDict, FALSE, "exists")
                   /\ UNCHANGED epc
              ELSE /\ hpc' = "extract"
                   /\ tmp_file' = "exists"
                   /\ tmp_path' = TRUE
                   /\ epc' = "native"
                   /\ UNCHANGED <<status, reply>>

\* lines 124-129: extract_text_from_upload has returned (or raised); the
\* call of analyze_document
HandlerExtracted ==
    /\ hpc = "extract"
    /\ epc \in {"done", "raised"}
    /\ UNCHANGED <<evars, cls_text, label, configured, attempt, calls, path,
                   last_response, last_error, only_malformed, last_kind, result,
                   earlier>>
    /\ IF epc = "raised"
       THEN /\ Respond(500, EmptyDict, tmp_path, tmp_file)
            /\ UNCHANGED pc
       ELSE IF NoText(ret)
       THEN /\ Respond(422, EmptyDict, tmp_path, tmp_file)
            /\ UNCHANGED pc
       ELSE /\ hpc' = "analyze"
            /\ pc' = "start"
            /\ UNCHANGED <<tmp_file, tmp_path, status, reply>>

\* lines 129-163: analyze_document has returned (or raised); the document
\* type, the classifier, the response.  The record is always a dict, so the
\* guard of lines 132-138 is never taken.
HandlerAnalyzed ==
    /\ hpc = "analyze"
    /\ pc \in {"done", "raised"}
    /\ UNCHANGED <<avars, evars>>
    /\ IF pc = "raised"
       THEN /\ Respond(500, EmptyDict, tmp_path, tmp_file)
            /\ UNCHANGED <<cls_text, label>>
       ELSE LET analysis_result == result
                doc_type == IF "document_type" \in DOMAIN analysis_result
                            THEN analysis_result.document_type
                            ELSE Str("Document")
            IN  IF doc_type \in GENERIC_TYPES
                THEN LET inferred == infer_document_type_from_content(ret)
                     IN  /\ cls_text' = ret
                         /\ label' = inferred
                         /\ Respond(200,
                                    [filename |-> Filename,
                                     document_type |-> inferred,
                                     analysis |-> SetItem(analysis_result,
                                                          "document_type", inferred)],
                                    tmp_path, tmp_file)
                ELSE /\ UNCHANGED <<cls_text, label>>
                     /\ Respond(200,
                                [filename |-> Filename,
                                 document_type |-> doc_type,
                                 analysis |-> analysis_result],
                                tmp_path, tmp_file)

HandlerNativeReturns == NativeReturnsOf(HandlerTexts)

HandlerOcrFallbackCall == OcrFallbackCallOf(HandlerTexts)

HandlerOcrFinalCall == OcrFinalCallOf(HandlerTexts)

HandlerAttemptRaises == AttemptRaisesOf(HandlerErrors)

HandlerAttemptText == AttemptTextOf(HandlerResponses)

\* a request has arrived; neither service has been called
HandlerInit ==
    /\ hpc = "start"
    /\ tmp_file = "none"
    /\ tmp_path = FALSE
    /\ status = 0
    /\ reply = EmptyDict
    /\ cls_text = <<>>
    /\ label = <<>>
    /\ configured \in BOOLEAN
    /\ pc = "idle"
    /\ attempt = 0
    /\ calls = 0
    /\ path = "none"
    /\ last_response = <<>>
    /\ last_error = <<>>
    /\ only_malformed = TRUE
    /\ last_kind = "none"
    /\ result = EmptyDict
    /\ earlier = <<>>
    /\ aws_available \in BOOLEAN
    /\ suffix \in HandlerSuffixes
    /\ epc = "idle"
    /\ native = "pending"
    /\ full_text = <<>>
    /\ ocr_log = <<>>
    /\ ret = <<>>

HandlerNext ==
    \/ HandlerBegin
    \/ HandlerNativeReturns
    \/ NativeRaises
    \/ HandlerOcrFallbackCall
    \/ HandlerOcrFinalCall
    \/ HandlerExtracted
    \/ Start
    \/ HandlerAttemptRaises
    \/ AttemptEmpty
    \/ HandlerAttemptText
    \/ HandlerAnalyzed

HandlerSpec == HandlerInit /\ [][HandlerNext]_vars

----------------------------------------------------------------------------
(* Two calls of analyze_document, one after the other *)

\* what the generation backend answers in the two calls
PairResponses ==
    {<<"{", "}">>, <<"{", "dt", "}">>, <<"x">>, <<" ", "x", "{">>, <<"1">>}

\* the error texts of the generation backend in the two calls
PairErrors == {<<"429">>, <<"timeout">>}

\* the last attempt of the call that has returned: its index and its
\* outcome, a response text or an error text
LastAttempt ==
    [index |-> attempt,
     raised |-> (last_kind = "raise"),
     response |-> last_response,
     error |-> last_error]

\* line 22: analyze_document is called again; the first call is remembered
\* with its record and with what its attempts before the last produced
Again ==
    /\ pc = "done"
    /\ earlier = <<>>
    /\ earlier' = [last |-> LastAttempt,
                   malformed |-> only_malformed,
                   record |-> result]
    /\ pc' = "start"
    /\ attempt' = 0
    /\ calls' = 0
    /\ path' = "none"
    /\ last_response' = <<>>
    /\ last_error' = <<>>
    /\ only_malformed' = TRUE
    /\ last_kind' = "none"
    /\ result' = EmptyDict
    /\ UNCHANGED <<configured, evars, hvars>>

PairAttemptRaises == AttemptRaisesOf(PairErrors)

PairAttemptText == AttemptTextOf(PairResponses)

PairInit == AnalyzeInit

PairNext == Start \/ PairAttemptRaises \/ AttemptEmpty \/ PairAttemptText \/ Again

PairSpec == PairInit /\ [][PairNext]_vars

----------------------------------------------------------------------------
(* Properties of analyze_document *)

\* what the code parsed out of the response that ended the call
Parsed(t) == JsonLoads(JsonContent(Strip(t)))

\* C1: whatever the remote outcomes of attempts 1..3 were, and also when
\* the model is unconfigured, the returned record contains the four keys
\* document_type, summary, key_information and extracted_data.
C1_AllRequiredKeys ==
    pc = "done" =>
      {"document_type", "summary", "key_information", "extracted_data"}
          \subseteq DOMAIN result

\* a record returned on the third attempt from an empty JSON object wrapped
\* in extra text: all four keys were defaulted
C1_Witness ==
    /\ pc = "done"
    /\ path = "normalize"
    /\ attempt = 3
    /\ last_response = <<"x", "{", "}", " ">>
    /\ DOMAIN result = {"document_type", "summary", "key_information", "extracted_data"}

\* C2: at most MAX_RETRIES = 3 calls of the remote generation capability
\* are made in one invocation; a 4th call is never reached.
C2_AtMostThreeCalls == MAX_RETRIES = 3 /\ calls <= 3 /\ attempt <= 3

\* three calls were made and the call returned
C2_Witness == pc = "done" /\ calls = 3

\* steps the call can still take: a natural number that every step lowers
Remaining ==
    CASE pc = "start" -> 5
      [] pc = "loop" -> 4 - attempt
      [] OTHER -> 0

\* a step lowers Remaining
Lowers == Remaining \in Nat /\ Remaining' \in Nat /\ Remaining' < Remaining

\* C3: analyze_document is total: for every sequence of remote outcomes it
\* terminates by returning a record and no exception ever leaves it.  No
\* exception leaves it, it can always take a step until it has returned, and
\* every step lowers a natural number, so it returns after at most 4 steps.
C3_Total ==
    /\ [](pc # "raised" /\ (pc = "done" \/ ENABLED AnalyzeNext))
    /\ [][Lowers]_vars

\* three rate-limit errors in a row ended in a returned record
C3_Witness ==
    /\ pc = "done"
    /\ calls = 3
    /\ IsRateLimit(last_error)
    /\ "error" \in DOMAIN result

----------------------------------------------------------------------------
(* Properties of extract_text_from_upload *)

\* the texts the OCR backend returned during the call
OcrTexts == {ocr_log[i].text : i \in {j \in 1..Len(ocr_log) : ocr_log[j].kind = "text"}}

\* the native step ended with only empty or whitespace text (or there was
\* no native extractor for the extension)
NativeBlank == native \in {"text", "skipped"} /\ Strip(full_text) = <<>>

\* C4: extract_text_from_upload never raises and always returns a string:
\* every failure of the native extractor and of the OCR call is absorbed,
\* and the result is text that was extracted or the empty string.
C4_NeverRaises ==
    /\ epc # "raised"
    /\ epc = "done" =>
         \/ ret = <<>>
         \/ native = "text" /\ ret = Strip(full_text)
         \/ ret \in OcrTexts

\* the native extractor raised, then the OCR call raised, and the empty
\* string was returned
C4_Witness ==
    /\ epc = "done"
    /\ native = "raise"
    /\ Len(ocr_log) = 1
    /\ ocr_log[1].kind = "raise"
    /\ ret = <<>>

\* C5: when native extraction gives only empty or whitespace text, the OCR
\* backend is invoked exactly once and its result returned, or the empty
\* string is returned if OCR is unavailable or the OCR call fails; a failed
\* OCR call is final and no further OCR call follows it.
C5_OcrExactlyOnce ==
    NativeBlank =>
      /\ Len(ocr_log) <= 1
      /\ epc = "done" =>
           IF aws_available
           THEN /\ Len(ocr_log) = 1
                /\ ret = (IF ocr_log[1].kind = "text" THEN ocr_log[1].text ELSE <<>>)
           ELSE /\ Len(ocr_log) = 0
                /\ ret = <<>>

\* C6: for each native format (.pdf, .docx, .csv, .xlsx, .txt), when the
\* native extractor returns text that is non-empty after trimming, that
\* text is returned trimmed and the OCR backend is never invoked.
C6_NativeSuccess ==
    (/\ ext \in {".pdf", ".docx", ".csv", ".xlsx", ".txt"}
     /\ native = "text"
     /\ Strip(full_text) # <<>>)
      => /\ epc = "done"
         /\ ret = Strip(full_text)
         /\ ocr_log = <<>>

\* a spreadsheet whose text has surrounding whitespace was returned trimmed
\* although OCR was available
C6_Witness ==
    /\ epc = "done"
    /\ suffix = ".xlsx"
    /\ aws_available
    /\ full_text = <<" ", "a">>
    /\ ret = <<"a">>
    /\ ocr_log = <<>>

----------------------------------------------------------------------------
(* Properties of the records analyze_document returns *)

\* C7: a returned record carries an error key if and only if it was
\* produced by a degraded path (TextReconstruction or Fallback); a record
\* of the Normalize path never carries one.
C7_ErrorIffDegraded ==
    pc = "done" =>
      (("error" \in DOMAIN result) <=> (path \in {"text_reconstruction", "fallback"}))

\* the final response is not valid JSON / is valid JSON but no object
FinalInvalid == last_response # <<>> /\ ~Parsed(last_response).ok

FinalNonObject ==
    /\ last_response # <<>>
    /\ Parsed(last_response).ok
    /\ ~Parsed(last_response).isdict

TextAnalysisError == Str("JSON parsing failed, using text analysis")

\* C8 as stated: when no attempt's response is parseable as a JSON mapping
\* (invalid JSON, or valid JSON that is not an object), the call retries up
\* to the bound and returns the TextReconstruction record, not the Fallback
\* record.
C8_Original ==
    (pc = "done" /\ configured /\ only_malformed) =>
      /\ calls = 3
      /\ path = "text_reconstruction"
      /\ result.error = TextAnalysisError

\* C8 as amended: when no attempt's response is parseable as a JSON mapping,
\* the call makes all 3 attempts; it returns the TextReconstruction record
\* if the final response is invalid JSON, and the Fallback record with
\* error "Analysis completed with fallback method" if the final response is
\* valid JSON that is not an object.
C8_Amended ==
    (pc = "done" /\ configured /\ only_malformed) =>
      /\ calls = 3
      /\ FinalInvalid \/ FinalNonObject
      /\ FinalInvalid =>
           /\ path = "text_reconstruction"
           /\ result.error = TextAnalysisError
      /\ FinalNonObject =>
           /\ path = "fallback"
           /\ result.error = Str("Analysis completed with fallback method")

\* three responses in a row were JSON that is not an object, and the
\* Fallback record was returned
C8_Witness ==
    /\ pc = "done"
    /\ only_malformed
    /\ calls = 3
    /\ last_response = <<"1">>
    /\ path = "fallback"

\* the TextReconstruction record C9 describes, for a text t
C9_Record(t) ==
    [language |-> <<"Unknown">>,
     document_type |-> <<"Document">>,
     summary |-> IF Len(t) <= 500 THEN t ELSE SubSeq(t, 1, 500) \o <<"...">>,
     key_information |->
         [important_details |-> << <<"Document processed with text analysis">> >>,
          dates |-> <<>>, amounts |-> <<>>, names |-> <<>>,
          actions_required |-> <<>>],
     extracted_data |-> [raw_analysis |-> t],
     error |-> <<"JSON parsing failed, using text analysis">>]

\* C9 as stated: if the response t of the final attempt is non-empty and
\* fails JSON parsing, the TextReconstruction record built from t is
\* returned: summary is t, or its first 500 characters and "..." when t is
\* longer, and extracted_data.raw_analysis is t.
C9_Original ==
    (pc = "done" /\ calls = 3 /\ FinalInvalid) => result = C9_Record(last_response)

\* C9 as amended: the record is built from the final response with its
\* leading and trailing whitespace removed.
C9_Amended ==
    (pc = "done" /\ calls = 3 /\ FinalInvalid) =>
      result = C9_Record(Strip(last_response))

\* prose of 501 characters on the final attempt: the summary is its first
\* 500 characters and the marker, raw_analysis keeps all 501
C9_Witness ==
    /\ pc = "done"
    /\ calls = 3
    /\ FinalInvalid
    /\ Len(last_response) = 501
    /\ Len(result.summary) = 501
    /\ result.summary[501] = "..."
    /\ Len(result.extracted_data.raw_analysis) = 501

\* the response without surrounding whitespace, and in it the text from
\* the first "{" to the last "}"
Trimmed == Strip(last_response)

Opens == {i \in 1..Len(Trimmed) : Trimmed[i] = "{"}

Closes == {i \in 1..Len(Trimmed) : Trimmed[i] = "}"}

Embedded ==
    SubSeq(Trimmed,
           CHOOSE i \in Opens : \A j \in Opens : i <= j,
           CHOOSE i \in Closes : \A j \in Closes : i >= j)

\* the response holds a JSON object with text before or after it
HasEmbeddedObject ==
    /\ Opens # {}
    /\ Closes # {}
    /\ IsObjectText(Embedded)
    /\ Embedded # Trimmed

C10_Default(k) ==
    CASE k = "document_type" -> <<"Document">>
      [] k = "summary" -> <<"Document analyzed successfully">>
      [] k = "key_information" -> EmptyDict
      [] k = "extracted_data" -> EmptyDict

\* C10 as stated: a JSON object embedded in extraneous text is parsed from
\* the first "{" to the last "}", and the record returned has the values it
\* supplied, the defaults for the other required fields, and a language.
C10_Original ==
    (pc = "done" /\ last_response # <<>> /\ HasEmbeddedObject) =>
      /\ path = "normalize"
      /\ \A k \in DOMAIN ObjectOf(Embedded) : result[k] = ObjectOf(Embedded)[k]
      /\ \A k \in REQUIRED_KEYS \ DOMAIN ObjectOf(Embedded) : result[k] = C10_Default(k)
      /\ "language" \in DOMAIN result

\* C10 as amended: the record has the values the object supplied and the
\* defaults for the missing ones of document_type, summary, key_information
\* and extracted_data, and no other key: language is present only if the
\* object supplied it.
C10_Amended ==
    (pc = "done" /\ last_response # <<>> /\ HasEmbeddedObject) =>
      /\ path = "normalize"
      /\ \A k \in DOMAIN ObjectOf(Embedded) : result[k] = ObjectOf(Embedded)[k]
      /\ \A k \in REQUIRED_KEYS \ DOMAIN ObjectOf(Embedded) : result[k] = C10_Default(k)
      /\ DOMAIN result = DOMAIN ObjectOf(Embedded) \cup REQUIRED_KEYS

\* "x{dt} ": document_type is "Invoice", the other three fields have their
\* defaults and there is no language
C10_Witness ==
    /\ pc = "done"
    /\ last_response = <<"x", "{", "dt", "}", " ">>
    /\ result.document_type = <<"Invoice">>
    /\ result.summary = <<"Document analyzed successfully">>
    /\ DOMAIN result.key_information = {}
    /\ DOMAIN result.extracted_data = {}
    /\ "language" \notin DOMAIN result

----------------------------------------------------------------------------
(* Further properties of analyze_document *)

\* the fixed Fallback record with a given error text
FallbackRecord(error) ==
    [language |-> <<"Unknown">>,
     document_type |-> <<"Document">>,
     summary |-> <<"Document analysis completed with limited information due to API errors.">>,
     key_information |->
         [important_details |-> << <<"Document processed with limited analysis">> >>,
          dates |-> <<>>, amounts |-> <<>>, names |-> <<>>,
          actions_required |-> <<>>],
     extracted_data |-> EmptyDict,
     error |-> error]

\* C11: when the generation model is unconfigured, no call of the remote
\* capability is made and the fixed Fallback record is returned at once,
\* its error carrying the configuration-missing message.
C11_Unconfigured ==
    ~configured =>
      /\ calls = 0
      /\ attempt = 0
      /\ pc \in {"start", "done"}
      /\ pc = "done" => result = FallbackRecord(<<"Google AI not configured">>)

\* the unconfigured client has returned
C11_Witness == ~configured /\ pc = "done" /\ path = "fallback" /\ calls = 0

\* C14: in every returned record document_type and summary are present as
\* strings and key_information and extracted_data are present as mappings,
\* also when the model's object gives one of these keys a null or wrongly
\* typed value.  (In this model only document_type is ever given a value of
\* the wrong type, null; the other three keys always hold values of their
\* type.)
C14_TypedFields ==
    pc = "done" =>
      /\ {"document_type", "summary", "key_information", "extracted_data"}
            \subseteq DOMAIN result
      /\ result.document_type # None
      /\ result.summary # None

LIST_FIELDS == {"important_details", "dates", "amounts", "names", "actions_required"}

\* C15: in every returned record, on the Normalize, TextReconstruction and
\* Fallback paths alike, key_information contains the five list fields
\* important_details, dates, amounts, names and actions_required.
C15_FiveLists ==
    pc = "done" =>
      /\ "key_information" \in DOMAIN result
      /\ LIST_FIELDS \subseteq DOMAIN result.key_information

\* C16, one step of the retry loop: an attempt n < 3 that ends in an empty
\* response, a JSON value that is no mapping, a parse failure or a remote
\* error returns nothing and attempt n + 1 follows; an attempt that yields
\* a JSON mapping returns the normalized record at once, after exactly n
\* calls; on attempt 3 an empty response or a non-mapping JSON value gives
\* the Fallback record.  After the return no call is made.
C16_Step ==
    /\ pc = "loop" =>
         /\ calls' = calls + 1
         /\ (attempt < 3 /\ last_kind' \in {"empty", "nonobject", "invalid", "raise"}) =>
              /\ pc' = "loop"
              /\ attempt' = attempt + 1
              /\ path' = "none"
              /\ result' = result
         /\ last_kind' = "mapping" =>
              /\ pc' = "done"
              /\ path' = "normalize"
              /\ calls' = attempt
              /\ {"document_type", "summary", "key_information", "extracted_data"}
                    \subseteq DOMAIN result'
         /\ (attempt = 3 /\ last_kind' \in {"empty", "nonobject"}) =>
              /\ pc' = "done"
              /\ path' = "fallback"
              /\ result' = FallbackRecord(<<"Analysis completed with fallback method">>)
    /\ pc = "done" => calls' = calls

C16_Transitions == [][C16_Step]_vars

\* a parse failure on attempt 2 was followed by attempt 3
C16_Witness == pc = "loop" /\ attempt = 3 /\ calls = 2 /\ last_kind = "invalid"

\* the error text holds "429" or, in any case of the letters, "quota"
RateLimited(msg) == \E i \in 1..Len(msg) : msg[i] \in {"429", "quota", "Quota"}

\* C17: when the remote call of the final attempt raises, the Fallback
\* record is returned, its error the rate-limit message if the error text
\* contains "429" or (case-insensitively) "quota", and otherwise the
\* exhausted-retries message naming 3 retries; a rate-limit error on an
\* attempt n < 3 is retried like any other remote error.
C17_FinalError ==
    (pc = "done" /\ last_kind = "raise") =>
      /\ calls = 3
      /\ result =
           FallbackRecord(
             IF RateLimited(last_error)
             THEN <<"Rate limit exceeded. Please try again later or upgrade your Google AI plan.">>
             ELSE <<"Analysis completed with limited information after ", "3",
                    " retries: ">> \o last_error)

\* the third call raised an error whose text says "Quota"
C17_Witness ==
    /\ pc = "done"
    /\ last_kind = "raise"
    /\ last_error = <<"Quota">>
    /\ result.error =
         <<"Rate limit exceeded. Please try again later or upgrade your Google AI plan.">>

----------------------------------------------------------------------------
(* Further properties of extract_text_from_upload *)

\* C18: when the native extractor raises, the error is absorbed; with OCR
\* configured the OCR backend is invoked exactly once and its result is
\* returned, or the empty string if that call raises; with OCR not
\* configured the backend is never invoked and the empty string is
\* returned.
C18_NativeRaises ==
    native = "raise" =>
      /\ epc # "raised"
      /\ Len(ocr_log) <= 1
      /\ ~aws_available => Len(ocr_log) = 0
      /\ epc = "done" =>
           IF aws_available
           THEN /\ Len(ocr_log) = 1
                /\ ret = (IF ocr_log[1].kind = "text" THEN ocr_log[1].text ELSE <<>>)
           ELSE ret = <<>>

\* the extractor raised and the single OCR call returned the text "a"
C18_Witness ==
    /\ native = "raise"
    /\ epc = "done"
    /\ aws_available
    /\ ocr_log = <<[kind |-> "text", text |-> <<"a">>]>>
    /\ ret = <<"a">>

----------------------------------------------------------------------------
(* Properties of infer_document_type_from_content *)

\* the fixed order of the keyword groups
CategoryOrder == <<"financial", "legal", "business", "personal", "technical",
                   "academic", "government", "medical">>

CategoryRank(c) == CHOOSE i \in 1..Len(CategoryOrder) : CategoryOrder[i] = c

\* the keyword groups in their order, each with its category and label
KeywordGroups ==
    <<[category |-> "financial", label |-> <<"Invoice">>, words |-> InvoiceWords],
      [category |-> "financial", label |-> <<"Balance Sheet">>, words |-> BalanceSheetWords],
      [category |-> "financial", label |-> <<"Profit & Loss Statement">>, words |-> ProfitLossWords],
      [category |-> "financial", label |-> <<"Receipt">>, words |-> ReceiptWords],
      [category |-> "legal", label |-> <<"Contract">>, words |-> ContractWords],
      [category |-> "legal", label |-> <<"Legal Document">>, words |-> LegalWords],
      [category |-> "business", label |-> <<"Report">>, words |-> ReportWords],
      [category |-> "business", label |-> <<"Proposal">>, words |-> ProposalWords],
      [category |-> "business", label |-> <<"Memo">>, words |-> MemoWords],
      [category |-> "business", label |-> <<"Policy Document">>, words |-> PolicyWords],
      [category |-> "personal", label |-> <<"Resume">>, words |-> ResumeWords],
      [category |-> "personal", label |-> <<"Letter">>, words |-> LetterWords],
      [category |-> "personal", label |-> <<"Certificate">>, words |-> CertificateWords],
      [category |-> "technical", label |-> <<"Manual">>, words |-> ManualWords],
      [category |-> "technical", label |-> <<"Technical Document">>, words |-> TechnicalWords],
      [category |-> "academic", label |-> <<"Academic Document">>, words |-> AcademicWords],
      [category |-> "government", label |-> <<"Government Document">>, words |-> GovernmentWords],
      [category |-> "medical", label |-> <<"Medical Document">>, words |-> MedicalWords]>>

\* the word w occurs at offset i of the text s
OccursAt(w, s, i) == \A j \in 1..Len(w) : s[i + j] = w[j]

Occurs(w, s) == \E i \in 0..(Len(s) - Len(w)) : OccursAt(w, s, i)

\* the groups that have a keyword occurring in the lower-cased text
MatchingGroups(t) ==
    LET lowered == LowerText(t)
    IN  {g \in 1..Len(KeywordGroups) :
            \E w \in KeywordGroups[g].words : Occurs(w, lowered)}

\* the reference: the label of the first matching group, else the length
\* bucket of the text
ReferenceLabel(t) ==
    LET matching == MatchingGroups(t)
    IN  IF matching # {}
    THEN KeywordGroups[CHOOSE g \in matching : \A h \in matching : g <= h].label
    ELSE IF Len(t) < 100 THEN <<"Short Document">>
    ELSE IF 100 <= Len(t) /\ Len(t) < 1000 THEN <<"Medium Document">>
    ELSE <<"Long Document">>

\* the labels of the reference
ReferenceLabels ==
    {KeywordGroups[g].label : g \in 1..Len(KeywordGroups)}
        \cup {<<"Short Document">>, <<"Medium Document">>, <<"Long Document">>}

\* C12: the classifier is total and equals the reference for every text:
\* the label of the first keyword group, in the order financial, legal,
\* business, personal, technical, academic, government, medical, that has
\* a keyword occurring in the lower-cased text, and without a match
\* "Short Document" below 100 characters, "Medium Document" from 100 to
\* 999 and "Long Document" from 1000 on.
C12_Reference ==
    /\ \A g \in 1..(Len(KeywordGroups) - 1) :
          CategoryRank(KeywordGroups[g].category)
              <= CategoryRank(KeywordGroups[g + 1].category)
    /\ label # <<>> =>
          /\ label \in ReferenceLabels
          /\ label = ReferenceLabel(cls_text)

\* a text with 'contract' in front of 'invoice' was labelled "Invoice"
C12_Witness ==
    /\ cls_text = <<"c", "o", "n", "t", "r", "a", "c", "t">>
                     \o <<"I", "n", "v", "o", "i", "c", "e">>
    /\ label = <<"Invoice">>

----------------------------------------------------------------------------
(* Properties of the /analyze handler *)

\* C13: when a request completes, the temporary file created for the upload
\* no longer exists, on every path: success, a failure while reading the
\* upload or writing the temporary file, 422 and 500.
C13_TempFileGone == hpc = "done" => tmp_file # "exists"

\* C19: extraction, analysis and classification run in this order: the
\* analysis client is invoked only after extraction has returned a text
\* that is non-empty after trimming; when the extracted text is empty or
\* whitespace-only the request ends with 422, not 500, and neither the
\* generation backend nor the classifier is invoked.
C19_Order ==
    /\ pc # "idle" => (epc = "done" /\ Strip(ret) # <<>>)
    /\ label # <<>> => pc = "done"
    /\ (hpc = "done" /\ epc = "done" /\ Strip(ret) = <<>>) =>
          /\ status = 422
          /\ pc = "idle"
          /\ calls = 0
          /\ label = <<>>

\* the OCR backend returned a whitespace-only text and the request ended
\* with 422
C19_Witness ==
    /\ hpc = "done"
    /\ epc = "done"
    /\ ret = <<" ">>
    /\ status = 422

\* C20: the classifier is invoked if and only if the analysis record's
\* document_type is "GeneralDocument", "Document" or "Unknown", and its
\* label then replaces document_type at the top level of the response and
\* inside the analysis record; in every successful response the two are
\* equal, a Fallback or TextReconstruction record is always re-labelled,
\* and the response never carries one of the three generic labels.
C20_Classified ==
    /\ label # <<>> => (hpc = "done" /\ status = 200)
    /\ (hpc = "done" /\ status = 200) =>
          /\ label # <<>> <=>
                result.document_type \in
                    {<<"GeneralDocument">>, <<"Document">>, <<"Unknown">>}
          /\ label # <<>> =>
                /\ cls_text = ret
                /\ reply.document_type = label
                /\ reply.analysis.document_type = label
                /\ DOMAIN reply.analysis = DOMAIN result
                /\ \A k \in DOMAIN result \ {"document_type"} :
                      reply.analysis[k] = result[k]
          /\ label = <<>> => reply.analysis = result
          /\ reply.document_type = reply.analysis.document_type
          /\ path \in {"fallback", "text_reconstruction"} => label # <<>>
          /\ reply.document_type \notin
                {<<"GeneralDocument">>, <<"Document">>, <<"Unknown">>}

\* a TextReconstruction record for a text that names an invoice was
\* re-labelled "Invoice"
C20_Witness ==
    /\ hpc = "done"
    /\ status = 200
    /\ path = "text_reconstruction"
    /\ result.document_type = <<"Document">>
    /\ reply.document_type = <<"Invoice">>
    /\ reply.analysis.document_type = <<"Invoice">>

----------------------------------------------------------------------------
(* Two calls compared *)

\* both calls have returned
BothReturned == pc = "done" /\ earlier # <<>>

\* C21: the returned record is a function of the last attempt only: two
\* calls whose last attempt has the same index and the same outcome (the
\* same response text or the same error text) return equal records,
\* whatever their earlier attempts produced.
C21_LastAttemptOnly ==
    (BothReturned /\ earlier.last = LastAttempt) => result = earlier.record

\* two calls ended on attempt 3 with the same unparseable response; in one
\* of them an earlier attempt raised or answered nothing, in the other
\* every attempt answered unparseable text
C21_Witness ==
    /\ BothReturned
    /\ earlier.last = LastAttempt
    /\ attempt = 3
    /\ last_response = <<"x">>
    /\ earlier.malformed # only_malformed
    /\ result = earlier.record

============================================================================
